---- MODULE Spec2Model ----
(***************************************************************************)
(* A model of the health tracker (src/app.py): the date-range resolver,   *)
(* the record store with its form handlers, the dashboard computation and *)
(* the chart aggregation.                                                  *)
(*                                                                         *)
(* Text values (form fields, query parameters, TEXT columns) are sequences *)
(* of one-character strings, so that parsing and formatting are computed.  *)
(* Dates are records [year, month, day], as datetime.date.                 *)
(***************************************************************************)
EXTENDS Integers, Sequences, FiniteSets, TLC

\* ------------------------------------------------------------------------
\* Bounds of the model
\* ------------------------------------------------------------------------
BaseYear == 2023
NumYears == 2
MaxUsers == 2
MaxRows == 2
MaxReqs == 2

\* ------------------------------------------------------------------------
\* Text
\* ------------------------------------------------------------------------
\* request.form.get / request.args.get of a parameter that is absent
None == <<"<None>">>

Digits == <<"0", "1", "2", "3", "4", "5", "6", "7", "8", "9">>

DigitSet == {Digits[i] : i \in 1..10}

IsDigit(c) == c \in DigitSet

DigitValue == [c \in DigitSet |-> (CHOOSE i \in 1..10 : Digits[i] = c) - 1]

DigitVal(c) == DigitValue[c]

AllDigits(s) == \A i \in 1..Len(s) : IsDigit(s[i])

RECURSIVE DecVal(_)
DecVal(s) == IF s = <<>> THEN 0
             ELSE 10 * DecVal(SubSeq(s, 1, Len(s) - 1)) + DigitVal(s[Len(s)])

\* Python truthiness of an optional string: neither None nor ""
Truthy(s) == s # None /\ s # <<>>

\* str.strip() for the blank the model uses
RECURSIVE LStrip(_)
LStrip(s) == IF s # <<>> /\ s[1] = " " THEN LStrip(Tail(s)) ELSE s

RECURSIVE RStrip(_)
RStrip(s) == IF s # <<>> /\ s[Len(s)] = " " THEN RStrip(SubSeq(s, 1, Len(s) - 1)) ELSE s

Strip(s) == RStrip(LStrip(s))

\* zero-padded decimal of n in w characters (n < 10^w)
RECURSIVE Pad(_, _)
Pad(n, w) == IF w = 0 THEN <<>> ELSE Append(Pad(n \div 10, w - 1), Digits[(n % 10) + 1])

\* positions of "-" in s
Dashes(s) == {i \in 1..Len(s) : s[i] = "-"}

\* ------------------------------------------------------------------------
\* datetime.date
\* ------------------------------------------------------------------------
IsLeap(y) == y % 4 = 0 /\ (y % 100 # 0 \/ y % 400 = 0)

DaysInMonth(y, m) == IF m = 2 THEN (IF IsLeap(y) THEN 29 ELSE 28)
                     ELSE IF m \in {4, 6, 9, 11} THEN 30 ELSE 31

RECURSIVE DaysBeforeMonth(_, _)
DaysBeforeMonth(y, m) == IF m = 1 THEN 0
                         ELSE DaysBeforeMonth(y, m - 1) + DaysInMonth(y, m - 1)

DaysBeforeYear(y) == (y - 1) * 365 + (y - 1) \div 4 - (y - 1) \div 100 + (y - 1) \div 400

MkDate(y, m, d) == [year |-> y, month |-> m, day |-> d]

\* date(y, m, d) raises ValueError unless the fields name a calendar day
ValidYMD(y, m, d) == y \in 1..9999 /\ m \in 1..12 /\ d \in 1..DaysInMonth(y, m)

toordinal(dt) == DaysBeforeYear(dt.year) + DaysBeforeMonth(dt.year, dt.month) + dt.day

\* date.fromordinal: the year by the 400/100/4/1-year cycles, then the month
fromordinal(n) ==
    LET n0   == n - 1
        n400 == n0 \div 146097
        r400 == n0 % 146097
        n100 == r400 \div 36524
        r100 == r400 % 36524
        n4   == r100 \div 1461
        r4   == r100 % 1461
        n1   == r4 \div 365
        r1   == r4 % 365
        y    == n400 * 400 + 1 + n100 * 100 + n4 * 4 + n1
    IN  IF n1 = 4 \/ n100 = 4
        THEN MkDate(y - 1, 12, 31)
        ELSE LET m == CHOOSE k \in 1..12 :
                          /\ DaysBeforeMonth(y, k) <= r1
                          /\ r1 < DaysBeforeMonth(y, k) + DaysInMonth(y, k)
             IN  MkDate(y, m, r1 - DaysBeforeMonth(y, m) + 1)

\* date + timedelta(days = k)
AddDays(dt, k) == fromordinal(toordinal(dt) + k)

\* date.weekday(): Monday is 0
weekday(dt) == (toordinal(dt) + 6) % 7

DateLE(a, b) == toordinal(a) <= toordinal(b)

\* datetime.strptime(s, "%Y-%m-%d").date(): a 4-digit year, a 1- or 2-digit
\* month in 1..12, a 1- or 2-digit day in 1..31, then the date constructor
parse_date(s) ==
    IF Cardinality(Dashes(s)) # 2 THEN [ok |-> FALSE]
    ELSE LET i == CHOOSE k \in Dashes(s) : \A l \in Dashes(s) : k <= l
             j == CHOOSE k \in Dashes(s) : \A l \in Dashes(s) : l <= k
             ys == SubSeq(s, 1, i - 1)
             ms == SubSeq(s, i + 1, j - 1)
             ds == SubSeq(s, j + 1, Len(s))
         IN  IF /\ Len(ys) = 4 /\ AllDigits(ys)
                /\ Len(ms) \in 1..2 /\ AllDigits(ms) /\ DecVal(ms) \in 1..12
                /\ Len(ds) \in 1..2 /\ AllDigits(ds) /\ DecVal(ds) \in 1..31
                /\ ValidYMD(DecVal(ys), DecVal(ms), DecVal(ds))
             THEN [ok |-> TRUE, date |-> MkDate(DecVal(ys), DecVal(ms), DecVal(ds))]
             ELSE [ok |-> FALSE]

\* d.strftime("%Y-%m-%d")
fmt_day(d) == Pad(d.year, 4) \o <<"-">> \o Pad(d.month, 2) \o <<"-">> \o Pad(d.day, 2)

Pair(s, e) == [kind |-> "pair", start |-> s, end |-> e]

Unbounded == [kind |-> "unbounded"]

ValueError == [kind |-> "ValueError"]

\* range_key == "week"
week_range_isoweekday(t) ==
    LET start == AddDays(t, 0 - (weekday(t) + 1))
    IN  Pair(start, AddDays(start, 6))

week_range(t) ==
    LET start == AddDays(t, 0 - weekday(t))
    IN  Pair(start, AddDays(start, 6))

\* range_key == "month"
month_range_no_december(t) ==
    LET start == MkDate(t.year, t.month, 1)
        next_start == IF ValidYMD(start.year, start.month + 1, 1)
                      THEN MkDate(start.year, start.month + 1, 1)
                      ELSE start
    IN  IF ValidYMD(start.year, start.month + 1, 1)
        THEN Pair(start, AddDays(next_start, -1))
        ELSE ValueError

month_range(t) ==
    LET start == MkDate(t.year, t.month, 1)
        next_start == IF start.month = 12
                      THEN MkDate(start.year + 1, 1, 1)
                      ELSE MkDate(start.year, start.month + 1, 1)
    IN  Pair(start, AddDays(next_start, -1))

start_end_from_range(range_key, start_str, end_str, t) ==
    IF range_key = "today" THEN Pair(t, t)
    ELSE IF range_key = "week" THEN week_range(t)
    ELSE IF range_key = "month" THEN month_range(t)
    ELSE IF range_key = "custom" /\ Truthy(start_str) /\ Truthy(end_str)
         THEN IF parse_date(start_str).ok /\ parse_date(end_str).ok
              THEN Pair(parse_date(start_str).date, parse_date(end_str).date)
              ELSE ValueError
    ELSE Unbounded

\* ------------------------------------------------------------------------
\* State
\* ------------------------------------------------------------------------
VARIABLES
    today,         \* date.today()
    users,         \* table users: rows [id, username, email, password_hash]
    meal_logs,     \* table meal_logs
    fitness_logs,  \* table fitness_logs
    sleep_logs,    \* table sleep_logs
    weight_logs,   \* table weight_logs
    goals,         \* table goals
    seq,           \* AUTOINCREMENT: the largest id each table has handed out
    session,       \* session["user_id"] of the client, 0 when absent
    reqs,          \* requests served statement by statement (ensure_goals_row)
    response       \* what the last request or call returned

tables == <<users, meal_logs, fitness_logs, sleep_logs, weight_logs, goals, seq>>

vars == <<today, users, meal_logs, fitness_logs, sleep_logs, weight_logs, goals,
          seq, session, reqs, response>>

TableNames == {"users", "meal_logs", "fitness_logs", "sleep_logs", "weight_logs", "goals"}

\* the timestamps created_at / updated_at are write-only and left out of the rows

Idle == [pc |-> "idle"]

\* init_db on a fresh database file, no client session, no request in flight
InitStore ==
    /\ users = {}
    /\ meal_logs = {}
    /\ fitness_logs = {}
    /\ sleep_logs = {}
    /\ weight_logs = {}
    /\ goals = {}
    /\ seq = [t \in TableNames |-> 0]
    /\ session = 0
    /\ reqs = [r \in 1..MaxReqs |-> Idle]
    /\ response = [handler |-> "none"]

\* the day the store specifications run on: Wednesday 2025-01-01
StoreToday == MkDate(BaseYear + 2, 1, 1)

Init == InitStore /\ today = StoreToday

\* ------------------------------------------------------------------------
\* The date-range resolver on its own
\* ------------------------------------------------------------------------
AllDates == {MkDate(y, m, d) : y \in BaseYear..(BaseYear + NumYears - 1), m \in 1..12, d \in 1..31}

Text_2024_02_29 == <<"2", "0", "2", "4", "-", "0", "2", "-", "2", "9">>
Text_2023_02_29 == <<"2", "0", "2", "3", "-", "0", "2", "-", "2", "9">>
Text_abc == <<"a", "b", "c">>

RangeKeys == {"today", "week", "month", "custom", "all"}

RangeArgs == {None, <<>>, Text_abc, Text_2023_02_29, Text_2024_02_29}

InitRange == InitStore /\ today \in {d \in AllDates : ValidYMD(d.year, d.month, d.day)}

ResolveRange(range_key, start_str, end_str) ==
    /\ response' = [handler |-> "start_end_from_range", range_key |-> range_key,
                    start_str |-> start_str, end_str |-> end_str,
                    out |-> start_end_from_range(range_key, start_str, end_str, today)]
    /\ UNCHANGED <<today, tables, session, reqs>>

NextRange ==
    \E k \in RangeKeys, s \in RangeArgs, e \in RangeArgs :
        /\ (k # "custom" => s = None /\ e = None)
        /\ ResolveRange(k, s, e)

SpecRange == InitRange /\ [][NextRange]_vars

Resolved(k) == response.handler = "start_end_from_range" /\ response.range_key = k

\* C1: for every today, the "week" range is a pair (start, end) with start a
\* Monday, start <= today <= end and end = start + 6 days.
C1_WeekRange ==
    Resolved("week") =>
        /\ response.out.kind = "pair"
        /\ weekday(response.out.start) = 0
        /\ DateLE(response.out.start, today)
        /\ DateLE(today, response.out.end)
        /\ toordinal(response.out.end) = toordinal(response.out.start) + 6

\* a Sunday whose week began in the previous year
C1_Witness ==
    /\ Resolved("week")
    /\ weekday(today) = 6
    /\ response.out.kind = "pair"
    /\ response.out.start.year < today.year

\* C2: for every today, the "month" range starts on day 1 of today's month and
\* ends on the last day of that month: the day before start and the day after
\* end lie in other months.
C2_MonthRange ==
    Resolved("month") =>
        /\ response.out.kind = "pair"
        /\ response.out.start = MkDate(today.year, today.month, 1)
        /\ response.out.end = MkDate(today.year, today.month, DaysInMonth(today.year, today.month))
        /\ AddDays(response.out.start, -1).month # today.month
        /\ AddDays(response.out.end, 1).month # today.month
        /\ DateLE(response.out.start, today)
        /\ DateLE(today, response.out.end)

\* a day of December: the next month is in the next year
C2_Witness ==
    /\ Resolved("month")
    /\ today.month = 12
    /\ response.out.kind = "pair"
    /\ response.out.end.day = 31

\* a well-formed ISO date: YYYY-MM-DD naming a calendar day
IsISODate(s) ==
    /\ s # None
    /\ Len(s) = 10
    /\ s[5] = "-" /\ s[8] = "-"
    /\ AllDigits(SubSeq(s, 1, 4)) /\ AllDigits(SubSeq(s, 6, 7)) /\ AllDigits(SubSeq(s, 9, 10))
    /\ ValidYMD(DecVal(SubSeq(s, 1, 4)), DecVal(SubSeq(s, 6, 7)), DecVal(SubSeq(s, 9, 10)))

\* C10: resolving "custom" with a start or end that is not a valid ISO date
\* string, a missing or empty one included, fails with a parse error.
C10_CustomInvalidFails ==
    (Resolved("custom") /\ (~IsISODate(response.start_str) \/ ~IsISODate(response.end_str)))
        => response.out.kind = "ValueError"

\* ------------------------------------------------------------------------
\* auth: register, login, logout
\* ------------------------------------------------------------------------
Redirect(handler, form, flash, location) ==
    [handler |-> handler, form |-> form, status |-> 302, flash |-> flash, location |-> location]

FlashRequired == "All fields are required for registration."
FlashShort == "Password must be at least 8 characters."
FlashRegistered == "Registration successful. Please log in."
FlashDuplicate == "Username or email already exists."
FlashWelcome == "Welcome back!"
FlashInvalidLogin == "Invalid email or password."

\* bcrypt.generate_password_hash / check_password_hash
generate_password_hash(password) == <<"$", "2", "b", "$">> \o password

check_password_hash(pw_hash, password) == pw_hash = generate_password_hash(password)

\* users.username UNIQUE, users.email UNIQUE: the INSERT raises IntegrityError
UsersIntegrityError_username_only(rows, username, email) ==
    \E u \in rows : u.username = username

UsersIntegrityError(rows, username, email) ==
    \E u \in rows : u.username = username \/ u.email = email

Register(username_in, email_in, password_in) ==
    LET username == Strip(username_in)
        email == Strip(email_in)
        password == Strip(password_in)
        form == [action |-> "register", username |-> username_in, email |-> email_in,
                 password |-> password_in]
    IN  IF username = <<>> \/ email = <<>> \/ password = <<>>
        THEN /\ response' = Redirect("auth", form, FlashRequired, "auth")
             /\ UNCHANGED <<today, tables, session, reqs>>
        ELSE IF Len(password) < 8
        THEN /\ response' = Redirect("auth", form, FlashShort, "auth")
             /\ UNCHANGED <<today, tables, session, reqs>>
        ELSE IF UsersIntegrityError(users, username, email)
        THEN /\ response' = Redirect("auth", form, FlashDuplicate, "auth")
             /\ UNCHANGED <<today, tables, session, reqs>>
        ELSE /\ seq["users"] < MaxUsers
             /\ users' = users \cup {[id |-> seq["users"] + 1, username |-> username,
                                      email |-> email,
                                      password_hash |-> generate_password_hash(password)]}
             /\ seq' = [seq EXCEPT !["users"] = @ + 1]
             /\ response' = Redirect("auth", form, FlashRegistered, "auth")
             /\ UNCHANGED <<today, meal_logs, fitness_logs, sleep_logs, weight_logs, goals,
                            session, reqs>>

Login(email_in, password_in) ==
    LET email == Strip(email_in)
        password == Strip(password_in)
        form == [action |-> "login", email |-> email_in, password |-> password_in]
        found == {u \in users : u.email = email}
    IN  IF \E u \in found : check_password_hash(u.password_hash, password)
        THEN /\ session' = (CHOOSE u \in found : TRUE).id
             /\ response' = Redirect("auth", form, FlashWelcome, "dashboard")
             /\ UNCHANGED <<today, tables, reqs>>
        ELSE /\ response' = Redirect("auth", form, FlashInvalidLogin, "auth")
             /\ UNCHANGED <<today, tables, session, reqs>>

Logout ==
    /\ session' = 0
    /\ response' = Redirect("logout", <<>>, "Logged out.", "auth")
    /\ UNCHANGED <<today, tables, reqs>>

\* the form values the model registers and logs in with
NameAl == <<"a", "l">>
NameBo == <<"b", "o">>
MailAl == <<"a", "@", "x">>
MailBo == <<"b", "@", "x">>
Password8 == <<"p", "a", "s", "s", "w", "o", "r", "d">>
Password3 == <<"p", "w", "d">>

AuthNames == {<<>>, NameAl, NameBo, <<" ">> \o NameAl}
AuthMails == {<<>>, MailAl, MailBo}
AuthPasswords == {<<>>, Password3, Password8}

NextAuth ==
    \/ \E u \in AuthNames, e \in AuthMails, p \in AuthPasswords : Register(u, e, p)
    \/ \E e \in AuthMails, p \in AuthPasswords : Login(e, p)
    \/ Logout

SpecAuth == Init /\ [][NextAuth]_vars

IsRegister(r) == r.handler = "auth" /\ r.form.action = "register"

\* the submitted username or email is that of a row of the table
TakenIn(rows, form) ==
    \E u \in rows : u.username = Strip(form.username) \/ u.email = Strip(form.email)

NoSharedNameOrMail(rows) ==
    \A u \in rows, v \in rows : (u.username = v.username \/ u.email = v.email) => u = v

\* C9 as stated: every registration whose username or email is taken gets the
\* duplicate message and leaves the users table unchanged, and no two rows
\* share a username or an email.
C9_DuplicateRejected ==
    /\ [][(IsRegister(response') /\ TakenIn(users, response'.form))
            => (response'.flash = FlashDuplicate /\ users' = users)]_vars
    /\ [](NoSharedNameOrMail(users))

\* C9, amended: a registration whose three fields are filled in and whose
\* password has at least 8 characters, and whose username or email is taken,
\* gets the duplicate message, which is neither of the other two messages;
\* every registration whose username or email is taken leaves the users table
\* unchanged; no two rows share a username or an email.
C9_DuplicateRejectedWhenWellFormed ==
    /\ [][(IsRegister(response') /\ TakenIn(users, response'.form))
            => /\ users' = users
               /\ (/\ Strip(response'.form.username) # <<>>
                   /\ Strip(response'.form.email) # <<>>
                   /\ Len(Strip(response'.form.password)) >= 8)
                    => /\ response'.flash = FlashDuplicate
                       /\ response'.flash \notin {FlashRequired, FlashShort, FlashRegistered}]_vars
    /\ [](NoSharedNameOrMail(users))

\* a second registration with a taken email under a new username was refused
C9_Witness ==
    /\ IsRegister(response)
    /\ response.flash = FlashDuplicate
    /\ Cardinality(users) = 1
    /\ \E u \in users : u.email = Strip(response.form.email) /\ u.username # Strip(response.form.username)

\* ------------------------------------------------------------------------
\* Numbers in form fields
\* ------------------------------------------------------------------------
\* int(text): blanks stripped, an optional sign, then digits; else ValueError
IntParse(s) ==
    LET t == Strip(s)
        signed == t # <<>> /\ t[1] \in {"+", "-"}
        body == IF signed THEN Tail(t) ELSE t
    IN  IF body # <<>> /\ AllDigits(body)
        THEN [ok |-> TRUE, v |-> IF signed /\ t[1] = "-" THEN 0 - DecVal(body) ELSE DecVal(body)]
        ELSE [ok |-> FALSE]

\* int(request.form.get(name) or 0)
IntOrZero(field) == IF Truthy(field) THEN IntParse(field) ELSE [ok |-> TRUE, v |-> 0]

\* float(text), in hundredths: an optional sign, digits, and at most two
\* decimals after a point (the texts the model submits); else ValueError
FloatParse(s) ==
    LET t == Strip(s)
        signed == t # <<>> /\ t[1] \in {"+", "-"}
        body == IF signed THEN Tail(t) ELSE t
        dots == {i \in 1..Len(body) : body[i] = "."}
        dot == IF dots = {} THEN Len(body) + 1 ELSE CHOOSE i \in dots : TRUE
        whole == SubSeq(body, 1, dot - 1)
        frac == SubSeq(body, dot + 1, Len(body))
        mag == 100 * DecVal(whole)
                 + (IF Len(frac) = 1 THEN 10 * DecVal(frac) ELSE IF Len(frac) = 2 THEN DecVal(frac) ELSE 0)
    IN  IF /\ Cardinality(dots) <= 1
           /\ Len(whole) + Len(frac) > 0
           /\ Len(frac) <= 2
           /\ AllDigits(whole) /\ AllDigits(frac)
        THEN [ok |-> TRUE, v |-> IF signed /\ t[1] = "-" THEN 0 - mag ELSE mag]
        ELSE [ok |-> FALSE]

\* float(request.form.get(name) or 0)
FloatOrZero(field) == IF Truthy(field) THEN FloatParse(field) ELSE [ok |-> TRUE, v |-> 0]

\* the quotient n / d rounded to the nearest integer (n >= 0, d > 0)
RoundDiv(n, d) == (2 * n + d) \div (2 * d)

\* ------------------------------------------------------------------------
\* Logs: the form handlers
\* ------------------------------------------------------------------------
NoFlash == ""

\* login_required: without a session the view is not entered
LoginRequired(handler) ==
    /\ session = 0
    /\ response' = Redirect("login_required", [view |-> handler], NoFlash, "auth")
    /\ UNCHANGED <<today, tables, session, reqs>>

\* an exception no handler catches: the request ends with status 500
ServerError(handler, form, error) ==
    [handler |-> handler, form |-> form, status |-> 500, error |-> error]

\* the model stops adding log rows once MaxRows ids have been handed out
LogRowsLeft ==
    seq["meal_logs"] + seq["fitness_logs"] + seq["sleep_logs"] + seq["weight_logs"] < MaxRows

FlashMealInvalid == "Please provide a valid meal entry."
FlashMealAdded == "Meal log added."
FlashFitnessInvalid == "Please provide a valid fitness entry."
FlashFitnessAdded == "Fitness log added."
FlashSleepMissing == "Please provide both sleep start and end."
FlashSleepInvalid == "Invalid datetime format."
FlashSleepAdded == "Sleep log added."
FlashWeightInvalid == "Please provide valid weight/height."
FlashWeightAdded == "Weight log added."

TextBreakfast == <<"B", "r", "e", "a", "k", "f", "a", "s", "t">>

\* request.form.get(name, "").strip()
StripOrEmpty(field) == IF field = None THEN <<>> ELSE Strip(field)

MealsPost(dt, meal_type_in, food_in, calories_in) ==
    LET uid == session
        form == [date |-> dt, meal_type |-> meal_type_in, food |-> food_in,
                 calories |-> calories_in]
        meal_type == IF Truthy(meal_type_in) THEN meal_type_in ELSE TextBreakfast
        food == StripOrEmpty(food_in)
        calories == IntOrZero(calories_in)
    IN  /\ session # 0
        /\ IF ~calories.ok
           THEN /\ response' = ServerError("meals", form, "ValueError")
                /\ UNCHANGED <<today, tables, session, reqs>>
           ELSE IF ~Truthy(dt) \/ food = <<>> \/ calories.v <= 0
           THEN /\ response' = Redirect("meals", form, FlashMealInvalid, "meals")
                /\ UNCHANGED <<today, tables, session, reqs>>
           ELSE /\ LogRowsLeft
                /\ meal_logs' = meal_logs \cup
                       {[id |-> seq["meal_logs"] + 1, user_id |-> uid, date |-> dt,
                         meal_type |-> meal_type, food |-> food, calories |-> calories.v]}
                /\ seq' = [seq EXCEPT !["meal_logs"] = @ + 1]
                /\ response' = Redirect("meals", form, FlashMealAdded, "meals")
                /\ UNCHANGED <<today, users, fitness_logs, sleep_logs, weight_logs, goals,
                               session, reqs>>

FitnessPost(dt, activity_in, duration_in, burned_in) ==
    LET uid == session
        form == [date |-> dt, activity_type |-> activity_in, duration_min |-> duration_in,
                 calories_burned |-> burned_in]
        activity == StripOrEmpty(activity_in)
        duration == IntOrZero(duration_in)
        burned == IntOrZero(burned_in)
    IN  /\ session # 0
        /\ IF ~duration.ok \/ ~burned.ok
           THEN /\ response' = ServerError("fitness", form, "ValueError")
                /\ UNCHANGED <<today, tables, session, reqs>>
           ELSE IF ~Truthy(dt) \/ activity = <<>> \/ duration.v <= 0 \/ burned.v < 0
           THEN /\ response' = Redirect("fitness", form, FlashFitnessInvalid, "fitness")
                /\ UNCHANGED <<today, tables, session, reqs>>
           ELSE /\ LogRowsLeft
                /\ fitness_logs' = fitness_logs \cup
                       {[id |-> seq["fitness_logs"] + 1, user_id |-> uid, date |-> dt,
                         activity_type |-> activity, duration_min |-> duration.v,
                         calories_burned |-> burned.v]}
                /\ seq' = [seq EXCEPT !["fitness_logs"] = @ + 1]
                /\ response' = Redirect("fitness", form, FlashFitnessAdded, "fitness")
                /\ UNCHANGED <<today, users, meal_logs, sleep_logs, weight_logs, goals,
                               session, reqs>>

\* bmi = round(weight_kg / ((height_cm / 100.0) ** 2), 2), all three in
\* hundredths; exact for a height of whole centimetres, which is what the
\* model submits
Bmi(weight_kg, height_cm) ==
    RoundDiv(weight_kg * 10000, (height_cm \div 100) * (height_cm \div 100))

WeightPost(dt, weight_in, height_in) ==
    LET uid == session
        form == [date |-> dt, weight_kg |-> weight_in, height_cm |-> height_in]
        weight_kg == FloatOrZero(weight_in)
        height_cm == FloatOrZero(height_in)
    IN  /\ session # 0
        /\ IF ~weight_kg.ok \/ ~height_cm.ok
           THEN /\ response' = ServerError("weight", form, "ValueError")
                /\ UNCHANGED <<today, tables, session, reqs>>
           ELSE IF ~Truthy(dt) \/ weight_kg.v <= 0 \/ height_cm.v <= 0
           THEN /\ response' = Redirect("weight", form, FlashWeightInvalid, "weight")
                /\ UNCHANGED <<today, tables, session, reqs>>
           ELSE /\ LogRowsLeft
                /\ weight_logs' = weight_logs \cup
                       {[id |-> seq["weight_logs"] + 1, user_id |-> uid, date |-> dt,
                         weight_kg |-> weight_kg.v, height_cm |-> height_cm.v,
                         bmi |-> Bmi(weight_kg.v, height_cm.v)]}
                /\ seq' = [seq EXCEPT !["weight_logs"] = @ + 1]
                /\ response' = Redirect("weight", form, FlashWeightAdded, "weight")
                /\ UNCHANGED <<today, users, meal_logs, fitness_logs, sleep_logs, goals,
                               session, reqs>>

\* ------------------------------------------------------------------------
\* datetime, for the sleep log
\* ------------------------------------------------------------------------
MkDateTime(d, hh, mm) == [date |-> d, hh |-> hh, mm |-> mm]

\* datetime.strptime(s, "%H:%M"): 1 or 2 digits each, 0..23 and 0..59
ParseTime(s) ==
    LET colons == {i \in 1..Len(s) : s[i] = ":"}
        c == CHOOSE i \in colons : TRUE
        hs == SubSeq(s, 1, c - 1)
        ms == SubSeq(s, c + 1, Len(s))
    IN  IF Cardinality(colons) # 1 THEN [ok |-> FALSE]
        ELSE IF /\ Len(hs) \in 1..2 /\ AllDigits(hs) /\ DecVal(hs) \in 0..23
                /\ Len(ms) \in 1..2 /\ AllDigits(ms) /\ DecVal(ms) \in 0..59
             THEN [ok |-> TRUE, hh |-> DecVal(hs), mm |-> DecVal(ms)]
             ELSE [ok |-> FALSE]

\* to_dt: 'YYYY-MM-DDTHH:MM' when the text has a "T", else 'YYYY-MM-DD HH:MM'
to_dt(dt_str) ==
    LET t == Strip(dt_str)
        sep == IF \E i \in 1..Len(t) : t[i] = "T" THEN "T" ELSE " "
        seps == {i \in 1..Len(t) : t[i] = sep}
        k == CHOOSE i \in seps : TRUE
        d == parse_date(SubSeq(t, 1, k - 1))
        tm == ParseTime(SubSeq(t, k + 1, Len(t)))
    IN  IF Cardinality(seps) # 1 THEN [ok |-> FALSE]
        ELSE IF d.ok /\ tm.ok THEN [ok |-> TRUE, dt |-> MkDateTime(d.date, tm.hh, tm.mm)]
        ELSE [ok |-> FALSE]

\* minutes since the start of day 0 of the proleptic calendar
DtMinutes(x) == toordinal(x.date) * 1440 + x.hh * 60 + x.mm

\* x.isoformat(sep = " "): the seconds are always 00
isoformat(x) ==
    fmt_day(x.date) \o <<" ">> \o Pad(x.hh, 2) \o <<":">> \o Pad(x.mm, 2) \o <<":", "0", "0">>

SleepPost(start_in, end_in) ==
    LET uid == session
        form == [sleep_start |-> start_in, sleep_end |-> end_in]
        s_dt == to_dt(start_in)
        e_dt0 == to_dt(end_in)
        e_dt == IF DtMinutes(e_dt0.dt) < DtMinutes(s_dt.dt)
                THEN MkDateTime(AddDays(e_dt0.dt.date, 1), e_dt0.dt.hh, e_dt0.dt.mm)
                ELSE e_dt0.dt
        \* round((e_dt - s_dt).total_seconds() / 3600.0, 2), in hundredths
        duration_h == RoundDiv((DtMinutes(e_dt) - DtMinutes(s_dt.dt)) * 5, 3)
    IN  /\ session # 0
        /\ IF ~Truthy(start_in) \/ ~Truthy(end_in)
           THEN /\ response' = Redirect("sleep", form, FlashSleepMissing, "sleep")
                /\ UNCHANGED <<today, tables, session, reqs>>
           ELSE IF ~s_dt.ok \/ ~e_dt0.ok
           THEN /\ response' = Redirect("sleep", form, FlashSleepInvalid, "sleep")
                /\ UNCHANGED <<today, tables, session, reqs>>
           ELSE IF duration_h <= 0
           THEN /\ response' = Redirect("sleep", form, FlashSleepInvalid, "sleep")
                /\ UNCHANGED <<today, tables, session, reqs>>
           ELSE /\ LogRowsLeft
                /\ sleep_logs' = sleep_logs \cup
                       {[id |-> seq["sleep_logs"] + 1, user_id |-> uid,
                         sleep_start |-> isoformat(s_dt.dt), sleep_end |-> isoformat(e_dt),
                         duration_hours |-> duration_h]}
                /\ seq' = [seq EXCEPT !["sleep_logs"] = @ + 1]
                /\ response' = Redirect("sleep", form, FlashSleepAdded, "sleep")
                /\ UNCHANGED <<today, users, meal_logs, fitness_logs, weight_logs, goals,
                               session, reqs>>

\* ------------------------------------------------------------------------
\* Logs: the delete handlers
\* ------------------------------------------------------------------------
\* DELETE FROM <table> WHERE id=? AND user_id=?
DeleteOwn_by_id_only(rows, rid, uid) == {r \in rows : ~(r.id = rid)}

DeleteOwn(rows, rid, uid) == {r \in rows : ~(r.id = rid /\ r.user_id = uid)}

DeleteForm(rid) == [rid |-> rid]

meals_delete(rid) ==
    /\ session # 0
    /\ meal_logs' = DeleteOwn(meal_logs, rid, session)
    /\ response' = Redirect("meals_delete", DeleteForm(rid), "Meal log deleted.", "meals")
    /\ UNCHANGED <<today, users, fitness_logs, sleep_logs, weight_logs, goals, seq, session, reqs>>

fitness_delete(rid) ==
    /\ session # 0
    /\ fitness_logs' = DeleteOwn(fitness_logs, rid, session)
    /\ response' = Redirect("fitness_delete", DeleteForm(rid), "Fitness log deleted.", "fitness")
    /\ UNCHANGED <<today, users, meal_logs, sleep_logs, weight_logs, goals, seq, session, reqs>>

sleep_delete(rid) ==
    /\ session # 0
    /\ sleep_logs' = DeleteOwn(sleep_logs, rid, session)
    /\ response' = Redirect("sleep_delete", DeleteForm(rid), "Sleep log deleted.", "sleep")
    /\ UNCHANGED <<today, users, meal_logs, fitness_logs, weight_logs, goals, seq, session, reqs>>

weight_delete(rid) ==
    /\ session # 0
    /\ weight_logs' = DeleteOwn(weight_logs, rid, session)
    /\ response' = Redirect("weight_delete", DeleteForm(rid), "Weight log deleted.", "weight")
    /\ UNCHANGED <<today, users, meal_logs, fitness_logs, sleep_logs, goals, seq, session, reqs>>

\* ------------------------------------------------------------------------
\* Form values of the store specifications
\* ------------------------------------------------------------------------
TextToday == fmt_day(StoreToday)
Text0 == <<"0">>
TextMinus5 == <<"-", "5">>
Text30 == <<"3", "0">>
Text70 == <<"7", "0">>
Text175 == <<"1", "7", "5">>
Text300 == <<"3", "0", "0">>
TextX == <<"x">>
TextNight == TextToday \o <<" ", "2", "3", ":", "0", "0">>
TextMorning == TextToday \o <<"T", "0", "7", ":", "3", "0">>

\* the two accounts of the store specifications
RegisterAccount ==
    \/ Register(NameAl, MailAl, Password8)
    \/ Register(NameBo, MailBo, Password8)

LoginAccount == \E e \in {MailAl, MailBo} : Login(e, Password8)

\* ------------------------------------------------------------------------
\* Deleting log rows
\* ------------------------------------------------------------------------
RowIds == 1..(MaxRows + 1)

DeleteHandlers == {"meals_delete", "fitness_delete", "sleep_delete", "weight_delete"}

NextDelete ==
    \/ RegisterAccount
    \/ LoginAccount
    \/ MealsPost(TextToday, None, TextX, Text300)
    \/ FitnessPost(TextToday, TextX, Text30, Text300)
    \/ SleepPost(TextNight, TextMorning)
    \/ WeightPost(TextToday, Text70, Text175)
    \/ \E rid \in RowIds : meals_delete(rid)
    \/ \E rid \in RowIds : fitness_delete(rid)
    \/ \E rid \in RowIds : sleep_delete(rid)
    \/ \E rid \in RowIds : weight_delete(rid)
    \/ \E h \in DeleteHandlers : LoginRequired(h)

SpecDelete == Init /\ [][NextDelete]_vars

\* the table a delete handler works on, before and after the step
TableOf(h, m, f, s, w) ==
    IF h = "meals_delete" THEN m ELSE IF h = "fitness_delete" THEN f
    ELSE IF h = "sleep_delete" THEN s ELSE w

\* C7: a delete of row id rid in the session of user U removes exactly the
\* row of that table with that id when it belongs to U, and leaves every
\* table unchanged when the row belongs to another user or does not exist.
C7_DeleteOwnRowsOnly ==
    [][response'.handler \in DeleteHandlers =>
        LET h == response'.handler
            rid == response'.form.rid
            before == TableOf(h, meal_logs, fitness_logs, sleep_logs, weight_logs)
            after == TableOf(h, meal_logs', fitness_logs', sleep_logs', weight_logs')
            own == {r \in before : r.id = rid /\ r.user_id = session}
        IN  /\ after = before \ own
            /\ (own = {} => tables' = tables)
            /\ \A t \in DeleteHandlers \ {h} :
                   TableOf(t, meal_logs', fitness_logs', sleep_logs', weight_logs')
                       = TableOf(t, meal_logs, fitness_logs, sleep_logs, weight_logs)
            /\ users' = users /\ goals' = goals]_vars

\* a delete aimed at another user's weight row left it in place
C7_Witness ==
    /\ response.handler = "weight_delete"
    /\ session # 0
    /\ \E r \in weight_logs : r.id = response.form.rid /\ r.user_id # session

\* ------------------------------------------------------------------------
\* Submitting log forms
\* ------------------------------------------------------------------------
PostHandlers == {"meals", "fitness", "sleep", "weight"}

SubmitDates == {None, Text_abc, TextToday}

NextSubmit ==
    \/ RegisterAccount
    \/ LoginAccount
    \/ \E dt \in SubmitDates, food \in {<<>>, TextX}, cal \in {Text0, Text_abc, Text300} :
           MealsPost(dt, None, food, cal)
    \/ \E dt \in {None, TextToday}, act \in {<<>>, TextX}, dur \in {Text_abc, Text30},
          burned \in {None, TextMinus5} :
           FitnessPost(dt, act, dur, burned)
    \/ \E s \in {None, Text_abc, TextNight}, e \in {TextNight, TextMorning} :
           SleepPost(s, e)
    \/ \E dt \in {Text_abc, TextToday}, w \in {Text0, Text70}, h \in {None, Text175} :
           WeightPost(dt, w, h)
    \/ \E h \in PostHandlers : LoginRequired(h)

SpecSubmit == Init /\ [][NextSubmit]_vars

\* a number field that is missing, not a number, or not positive
BadNumber(field) ==
    \/ ~Truthy(field)
    \/ ~FloatParse(field).ok
    \/ FloatParse(field).v <= 0

BadDate(field) == ~IsISODate(field)

\* 'YYYY-MM-DD HH:MM' or 'YYYY-MM-DDTHH:MM' naming a minute of a calendar day
BadDateTime(field) == ~Truthy(field) \/ ~to_dt(field).ok

InvalidForm(h, form) ==
    IF h = "meals"
    THEN BadDate(form.date) \/ StripOrEmpty(form.food) = <<>> \/ BadNumber(form.calories)
    ELSE IF h = "fitness"
    THEN \/ BadDate(form.date)
         \/ StripOrEmpty(form.activity_type) = <<>>
         \/ BadNumber(form.duration_min)
         \/ BadNumber(form.calories_burned)
    ELSE IF h = "sleep"
    THEN BadDateTime(form.sleep_start) \/ BadDateTime(form.sleep_end)
    ELSE BadDate(form.date) \/ BadNumber(form.weight_kg) \/ BadNumber(form.height_cm)

FlashInvalid == {FlashMealInvalid, FlashFitnessInvalid, FlashSleepMissing, FlashSleepInvalid,
                 FlashWeightInvalid}

\* C8: a meal, fitness, sleep or weight form with a missing field, a
\* non-positive or non-numeric number, or a bad date is answered by a redirect
\* to its own form with an error message, and no row is written.
C8_InvalidFormRejected ==
    [][(response'.handler \in PostHandlers /\ InvalidForm(response'.handler, response'.form))
        => /\ response'.status = 302
           /\ response'.flash \in FlashInvalid
           /\ response'.location = response'.handler
           /\ tables' = tables]_vars

\* ------------------------------------------------------------------------
\* SQL over the tables
\* ------------------------------------------------------------------------
\* the characters of the model's texts, in code-point order
CodeOrder == <<" ", "$", "+", "-", ".", "0", "1", "2", "3", "4", "5", "6", "7", "8", "9", ":",
               "<", ">", "@", "B", "N", "T", "W", "a", "b", "c", "d", "e", "f", "k", "l", "n", "o",
               "p", "r", "s", "t", "w", "x">>

CharCodes == [c \in {CodeOrder[i] : i \in 1..Len(CodeOrder)} |->
                 CHOOSE i \in 1..Len(CodeOrder) : CodeOrder[i] = c]

CharCode(c) == CharCodes[c]

\* a < b as TEXT values (BINARY collation): a is a proper prefix of b, or
\* the first character they differ in is smaller in a
TextLess(a, b) ==
    \E i \in 1..Len(b) :
        /\ \A j \in 1..(i - 1) : j <= Len(a) /\ a[j] = b[j]
        /\ (i > Len(a) \/ (i - 1 <= Len(a) /\ CharCode(a[i]) < CharCode(b[i])))

\* SUM(col) over a set of rows, 0 for none (COALESCE(SUM(..), 0))
RECURSIVE SumOf(_, _)
SumOf(rows, col) ==
    IF rows = {} THEN 0
    ELSE LET r == CHOOSE x \in rows : TRUE
         IN  r[col] + SumOf(rows \ {r}, col)

\* a nullable column: <<>> is NULL, <<v>> holds v
Null == <<>>

\* the two- and four-digit numbers at fixed places of a text
Dec2(t, i) == 10 * DigitVal(t[i]) + DigitVal(t[i + 1])

Dec4(t, i) == 100 * Dec2(t, i) + Dec2(t, i + 2)

Digits2(t, i) == IsDigit(t[i]) /\ IsDigit(t[i + 1])

\* the date SQLite reads from a TEXT value: 'YYYY-MM-DD' with a month in
\* 1..12 and a day in 1..31, alone or followed by ' HH:MM', 'THH:MM' or the
\* same with ':SS'; anything else is NULL
SqlTimeOk(t) ==
    /\ Len(t) \in {16, 19}
    /\ t[11] \in {" ", "T"}
    /\ t[14] = ":"
    /\ Digits2(t, 12) /\ Dec2(t, 12) \in 0..24
    /\ Digits2(t, 15) /\ Dec2(t, 15) \in 0..59
    /\ (Len(t) = 19 => t[17] = ":" /\ Digits2(t, 18) /\ Dec2(t, 18) \in 0..59)

SqlDateOk(text) ==
    /\ text # None
    /\ Len(text) >= 10
    /\ text[5] = "-" /\ text[8] = "-"
    /\ Digits2(text, 1) /\ Digits2(text, 3)
    /\ Digits2(text, 6) /\ Dec2(text, 6) \in 1..12
    /\ Digits2(text, 9) /\ Dec2(text, 9) \in 1..31
    /\ (Len(text) > 10 => SqlTimeOk(text))

SqlDate(text) ==
    IF SqlDateOk(text)
    THEN [ok |-> TRUE, date |-> MkDate(Dec4(text, 1), Dec2(text, 6), Dec2(text, 9))]
    ELSE [ok |-> FALSE]

\* DATE(text) and strftime('%Y-%m-%d', text) of a text SQLite reads a date
\* from: the year, month and day as written
SqlDay(text) == SubSeq(text, 1, 10)

\* ORDER BY date DESC, id DESC LIMIT 1 over a non-empty set of weight rows
Latest(rows) ==
    CHOOSE r \in rows : \A q \in rows :
        \/ TextLess(q.date, r.date)
        \/ (q.date = r.date /\ q.id <= r.id)

\* ------------------------------------------------------------------------
\* Goals
\* ------------------------------------------------------------------------
GoalsOf(rows, uid) == {g \in rows : g.user_id = uid}

NewGoal(id, uid) ==
    [id |-> id, user_id |-> uid, target_weight_kg |-> Null,
     daily_calorie_intake_target |-> Null, daily_exercise_minutes_target |-> Null]

\* INSERT INTO goals: goals.user_id is UNIQUE, a second row for the user
\* raises IntegrityError
InsertGoal_no_unique(rows, id, uid) ==
    [ok |-> TRUE, rows |-> rows \cup {NewGoal(id, uid)}]

InsertGoal(rows, id, uid) ==
    IF GoalsOf(rows, uid) # {}
    THEN [ok |-> FALSE]
    ELSE [ok |-> TRUE, rows |-> rows \cup {NewGoal(id, uid)}]

\* ensure_goals_row run without interruption: the goals table afterwards
EnsuredGoals(uid) ==
    IF GoalsOf(goals, uid) # {} THEN goals
    ELSE InsertGoal(goals, seq["goals"] + 1, uid).rows

EnsuredSeq(uid) ==
    IF GoalsOf(goals, uid) # {} THEN seq
    ELSE [seq EXCEPT !["goals"] = @ + 1]

\* conv(v, int) and conv(v, float): None, "" and unparsable texts give None
ConvInt(v) == IF Truthy(v) /\ IntParse(v).ok THEN <<IntParse(v).v>> ELSE Null

ConvFloat(v) == IF Truthy(v) /\ FloatParse(v).ok THEN <<FloatParse(v).v>> ELSE Null

\* UPDATE goals SET ... WHERE user_id=?
UpdateGoals(rows, uid, w, c, m) ==
    {IF g.user_id = uid
     THEN [g EXCEPT !.target_weight_kg = w, !.daily_calorie_intake_target = c,
                    !.daily_exercise_minutes_target = m]
     ELSE g : g \in rows}

\* the first row of SELECT * FROM goals WHERE user_id=?, <<>> when there is none
FetchGoal(rows, uid) ==
    IF GoalsOf(rows, uid) = {} THEN <<>> ELSE <<CHOOSE g \in GoalsOf(rows, uid) : TRUE>>

GoalsPost(tgt_w, tgt_c, tgt_m) ==
    LET uid == session
        form == [target_weight_kg |-> tgt_w, daily_calorie_intake_target |-> tgt_c,
                 daily_exercise_minutes_target |-> tgt_m]
    IN  /\ session # 0
        /\ goals' = UpdateGoals(EnsuredGoals(uid), uid, ConvFloat(tgt_w), ConvInt(tgt_c),
                                ConvInt(tgt_m))
        /\ seq' = EnsuredSeq(uid)
        /\ response' = Redirect("goals", form, "Goals updated.", "goals")
        /\ UNCHANGED <<today, users, meal_logs, fitness_logs, sleep_logs, weight_logs,
                       session, reqs>>

GoalsGet ==
    LET uid == session
    IN  /\ session # 0
        /\ goals' = EnsuredGoals(uid)
        /\ seq' = EnsuredSeq(uid)
        /\ response' = [handler |-> "goals", status |-> 200, uid |-> uid,
                        goals |-> FetchGoal(goals', uid)]
        /\ UNCHANGED <<today, users, meal_logs, fitness_logs, sleep_logs, weight_logs,
                       session, reqs>>

\* ------------------------------------------------------------------------
\* Dashboard
\* ------------------------------------------------------------------------
OfUser(rows, uid) == {r \in rows : r.user_id = uid}

\* the fixed advisory strings, by the delta they are keyed on
AdviceDeficit == [advice |-> "Aim for a daily calorie deficit of 300-500 kcal and do 30-45 minutes of moderate cardio today."]
AdviceSurplus == [advice |-> "Aim for a small surplus of +200-300 kcal and focus on strength training."]
AdviceExceeded == [advice |-> "You've exceeded today's intake target; go light for dinner and add some walking."]
AdviceExercise(n) == [advice |-> "You still need {n} minutes of exercise today (e.g., brisk walk/jog/cycle).", n |-> n]

\* the sleep rows whose DATE(sleep_end) >= DATE('now', '-6 day'); the model
\* takes the UTC day of 'now' to be date.today()
RecentSleep(rows, uid, t) ==
    {r \in OfUser(rows, uid) :
        /\ SqlDateOk(r.sleep_end)
        /\ toordinal(SqlDate(r.sleep_end).date) >= toordinal(t) - 6}

\* the SELECTs of dashboard() that precede ensure_goals_row
DashTotals(uid, t) ==
    LET meals_today == {r \in OfUser(meal_logs, uid) : r.date = fmt_day(t)}
        fitness_today == {r \in OfUser(fitness_logs, uid) : r.date = fmt_day(t)}
        recent == RecentSleep(sleep_logs, uid, t)
        weights == OfUser(weight_logs, uid)
    IN  [total_in |-> SumOf(meals_today, "calories"),
         total_out |-> SumOf(fitness_today, "calories_burned"),
         total_mins |-> SumOf(fitness_today, "duration_min"),
         avg_sleep |-> IF recent = {} THEN 0
                       ELSE RoundDiv(SumOf(recent, "duration_hours"), Cardinality(recent)),
         last_bmi |-> IF weights = {} THEN Null ELSE <<Latest(weights).bmi>>]

diffs_weight(goal, weights) ==
    IF goal # <<>> /\ goal[1].target_weight_kg # Null /\ weights # {}
    THEN <<Latest(weights).weight_kg - goal[1].target_weight_kg[1]>>
    ELSE Null

diffs_calorie_ignores_meals(goal, total_in) ==
    IF goal # <<>> /\ goal[1].daily_calorie_intake_target # Null
    THEN <<goal[1].daily_calorie_intake_target[1]>>
    ELSE Null

diffs_calorie(goal, total_in) ==
    IF goal # <<>> /\ goal[1].daily_calorie_intake_target # Null
    THEN <<goal[1].daily_calorie_intake_target[1] - total_in>>
    ELSE Null

diffs_exercise(goal, total_mins) ==
    IF goal # <<>> /\ goal[1].daily_exercise_minutes_target # Null
    THEN <<goal[1].daily_exercise_minutes_target[1] - total_mins>>
    ELSE Null

\* the rest of dashboard(): the goals row, the latest weight, the deltas and
\* the suggestions, rendered
DashRender(uid, totals, goal, weights) ==
    LET dw == diffs_weight(goal, weights)
        dc == diffs_calorie(goal, totals.total_in)
        de == diffs_exercise(goal, totals.total_mins)
    IN  [handler |-> "dashboard", status |-> 200, uid |-> uid,
         total_in |-> totals.total_in, total_out |-> totals.total_out,
         avg_sleep |-> totals.avg_sleep, last_bmi |-> totals.last_bmi,
         diffs |-> [weight |-> dw, calorie |-> dc, exercise |-> de],
         goals |-> goal,
         suggestions |->
             (IF dw # Null /\ dw[1] > 0 THEN <<AdviceDeficit>>
              ELSE IF dw # Null /\ dw[1] < 0 THEN <<AdviceSurplus>> ELSE <<>>)
             \o (IF dc # Null /\ dc[1] < 0 THEN <<AdviceExceeded>> ELSE <<>>)
             \o (IF de # Null /\ de[1] > 0 THEN <<AdviceExercise(de[1])>> ELSE <<>>)]

\* dashboard() served without another request in between
Dashboard ==
    LET uid == session
    IN  /\ session # 0
        /\ goals' = EnsuredGoals(uid)
        /\ seq' = EnsuredSeq(uid)
        /\ response' = DashRender(uid, DashTotals(uid, today), FetchGoal(goals', uid),
                                  OfUser(weight_logs, uid))
        /\ UNCHANGED <<today, users, meal_logs, fitness_logs, sleep_logs, weight_logs,
                       session, reqs>>

TextYesterday == fmt_day(AddDays(StoreToday, -1))
Text2000 == <<"2", "0", "0", "0">>
Text2300 == <<"2", "3", "0", "0">>

Next ==
    \/ RegisterAccount
    \/ LoginAccount
    \/ Logout
    \/ \E dt \in {TextToday, TextYesterday}, c \in {Text300, Text2300} : MealsPost(dt, None, TextX, c)
    \/ \E c \in {<<>>, Text2000} : GoalsPost(None, c, None)
    \/ GoalsGet
    \/ Dashboard
    \/ \E h \in {"dashboard", "goals", "meals"} : LoginRequired(h)

Spec == Init /\ [][Next]_vars

Suggested(r, a) == \E i \in 1..Len(r.suggestions) : r.suggestions[i] = a

\* C5: on the dashboard, with a calorie target set the calorie delta is the
\* target minus the calories of the user's meal logs dated today, and the
\* "exceeded" advisory is given exactly when the delta is negative; with no
\* target the delta is absent and the advisory is not given.
C5_CalorieDelta ==
    response.handler = "dashboard" =>
        LET g == CHOOSE x \in GoalsOf(goals, response.uid) : TRUE
            consumed == SumOf({m \in meal_logs : m.user_id = response.uid
                                                  /\ m.date = fmt_day(today)}, "calories")
        IN  /\ GoalsOf(goals, response.uid) # {}
            /\ IF g.daily_calorie_intake_target # Null
               THEN /\ response.diffs.calorie = <<g.daily_calorie_intake_target[1] - consumed>>
                    /\ Suggested(response, AdviceExceeded) <=> response.diffs.calorie[1] < 0
               ELSE /\ response.diffs.calorie = Null
                    /\ ~Suggested(response, AdviceExceeded)

\* target 2000, 2300 eaten today, another user's and yesterday's meals aside
C5_Witness ==
    /\ response.handler = "dashboard"
    /\ response.total_in = 2300
    /\ response.diffs.calorie = <<0 - 300>>
    /\ Suggested(response, AdviceExceeded)
    /\ Cardinality(meal_logs) = 2

\* ------------------------------------------------------------------------
\* Dashboard and goals requests served statement by statement: the SELECT
\* and the INSERT of ensure_goals_row of one request interleave with those
\* of another
\* ------------------------------------------------------------------------
\* the view is entered: session["user_id"] is read and dashboard() runs its
\* SELECTs up to the call of ensure_goals_row
BeginRequest(r, handler, form) ==
    /\ session # 0
    /\ reqs[r].pc = "idle"
    /\ reqs' = [reqs EXCEPT ![r] =
                   [pc |-> "ensure_select", handler |-> handler, form |-> form, uid |-> session,
                    totals |-> IF handler = "dashboard" THEN DashTotals(session, today)
                               ELSE <<>>]]
    /\ UNCHANGED <<today, tables, session, response>>

\* ensure_goals_row: SELECT id FROM goals WHERE user_id=?
EnsureSelect(r) ==
    /\ reqs[r].pc = "ensure_select"
    /\ reqs' = [reqs EXCEPT ![r].pc =
                   IF GoalsOf(goals, reqs[r].uid) # {} THEN "view" ELSE "ensure_insert"]
    /\ UNCHANGED <<today, tables, session, response>>

\* ensure_goals_row: INSERT INTO goals and commit; the IntegrityError of the
\* UNIQUE column is caught nowhere and ends the request
EnsureInsert(r) ==
    LET ins == InsertGoal(goals, seq["goals"] + 1, reqs[r].uid)
    IN  /\ reqs[r].pc = "ensure_insert"
        /\ IF ins.ok
           THEN /\ goals' = ins.rows
                /\ seq' = [seq EXCEPT !["goals"] = @ + 1]
                /\ reqs' = [reqs EXCEPT ![r].pc = "view"]
                /\ UNCHANGED <<today, users, meal_logs, fitness_logs, sleep_logs, weight_logs,
                               session, response>>
           ELSE /\ response' = [handler |-> reqs[r].handler, form |-> reqs[r].form,
                                status |-> 500, error |-> "IntegrityError", uid |-> reqs[r].uid]
                /\ reqs' = [reqs EXCEPT ![r] = Idle]
                /\ UNCHANGED <<today, tables, session>>

\* the rest of the view after ensure_goals_row returned: dashboard(), or
\* goals() with method POST
FinishRequest(r) ==
    LET uid == reqs[r].uid
        form == reqs[r].form
    IN  /\ reqs[r].pc = "view"
        /\ reqs' = [reqs EXCEPT ![r] = Idle]
        /\ IF reqs[r].handler = "dashboard"
           THEN /\ response' = DashRender(uid, reqs[r].totals, FetchGoal(goals, uid),
                                          OfUser(weight_logs, uid))
                /\ UNCHANGED <<today, tables, session>>
           ELSE /\ goals' = UpdateGoals(goals, uid, ConvFloat(form.target_weight_kg),
                                        ConvInt(form.daily_calorie_intake_target),
                                        ConvInt(form.daily_exercise_minutes_target))
                /\ response' = Redirect("goals", form, "Goals updated.", "goals")
                /\ UNCHANGED <<today, users, meal_logs, fitness_logs, sleep_logs, weight_logs,
                               seq, session>>

GoalsForm(c) ==
    [target_weight_kg |-> None, daily_calorie_intake_target |-> c,
     daily_exercise_minutes_target |-> None]

Slots == 1..MaxReqs

NextGoals ==
    \/ RegisterAccount
    \/ LoginAccount
    \/ \E r \in Slots : BeginRequest(r, "dashboard", <<>>)
    \/ \E r \in Slots : BeginRequest(r, "goals", GoalsForm(Text2000))
    \/ \E r \in Slots : EnsureSelect(r)
    \/ \E r \in Slots : EnsureInsert(r)
    \/ \E r \in Slots : FinishRequest(r)

SpecGoals == Init /\ [][NextGoals]_vars

UserIds == 1..MaxUsers

\* C6: every user has at most one goal row at all times, whatever the
\* interleaving of the check-then-insert steps; the row appears only in the
\* INSERT of a dashboard or goals request of that user, and it is there once
\* such a request is past ensure_goals_row and when it ends, served or failed.
C6_OneGoalRowLazily ==
    /\ [](\A u \in UserIds : Cardinality(GoalsOf(goals, u)) <= 1)
    /\ [](\A r \in Slots : reqs[r].pc = "view" => GoalsOf(goals, reqs[r].uid) # {})
    /\ [](response.handler \in {"dashboard", "goals"} /\ response.status # 302
            => GoalsOf(goals, response.uid) # {})
    /\ [][\A u \in UserIds :
            (GoalsOf(goals, u) = {} /\ GoalsOf(goals', u) # {})
                => \E r \in Slots : /\ reqs[r].pc = "ensure_insert"
                                   /\ reqs[r].uid = u
                                   /\ reqs'[r].pc = "view"]_vars
    /\ [][\A r \in Slots :
            (reqs[r].pc \in {"ensure_insert", "view"} /\ reqs'[r].pc = "idle")
                => GoalsOf(goals', reqs[r].uid) # {}]_vars

\* two requests of one user both found no row; the second INSERT was refused
C6_Witness ==
    /\ response.handler \in {"dashboard", "goals"}
    /\ response.status = 500
    /\ response.error = "IntegrityError"
    /\ Cardinality(GoalsOf(goals, response.uid)) = 1

\* ------------------------------------------------------------------------
\* Charts
\* ------------------------------------------------------------------------
\* strftime('%W', d): the week of the year, 00..53, week 01 starting on the
\* first Monday
WeekOfYear(d) == ((toordinal(d) - toordinal(MkDate(d.year, 1, 1))) + 7 - weekday(d)) \div 7

\* strftime(fmt, text) for the three group formats; NULL for a text that is
\* no date (None stands for NULL, as in the labels the view returns)
GroupKey(group_by, text) ==
    IF ~SqlDateOk(text) THEN None
    ELSE IF group_by = "month" THEN SubSeq(text, 1, 7)
    ELSE IF group_by = "week"
         THEN SubSeq(text, 1, 4) \o <<"-", "W">> \o Pad(WeekOfYear(SqlDate(text).date), 2)
    ELSE SqlDay(text)

\* ORDER BY g: NULL first, then the texts ascending
KeyLess(a, b) == a # b /\ (a = None \/ (b # None /\ TextLess(a, b)))

RECURSIVE SortKeys(_)
SortKeys(S) ==
    IF S = {} THEN <<>>
    ELSE LET m == CHOOSE x \in S : \A y \in S \ {x} : KeyLess(x, y)
         IN  <<m>> \o SortKeys(S \ {m})

\* a <= b as TEXT values
TextLE(a, b) == a = b \/ TextLess(a, b)

\* [AND DATE(col) BETWEEN ? AND ?], with fmt_day(start) and fmt_day(end)
InBound(text, bound) ==
    bound.kind = "pair" =>
        /\ SqlDateOk(text)
        /\ TextLE(fmt_day(bound.start), SqlDay(text))
        /\ TextLE(SqlDay(text), fmt_day(bound.end))

\* WHERE user_id=? [AND DATE(col) BETWEEN ? AND ?]
Selected_any_user(rows, date_col, uid, bound) ==
    {r \in rows : InBound(r[date_col], bound)}

Selected(rows, date_col, uid, bound) ==
    {r \in rows : r.user_id = uid /\ InBound(r[date_col], bound)}

\* the rows of one GROUP BY group
GroupOf_every_row(rows, date_col, group_by, g) == rows

GroupOf(rows, date_col, group_by, g) == {r \in rows : GroupKey(group_by, r[date_col]) = g}

aggregate_query(uid, rows, value_col, date_col, bound, group_by) ==
    LET sel == Selected(rows, date_col, uid, bound)
        labels == SortKeys({GroupKey(group_by, r[date_col]) : r \in sel})
    IN  [labels |-> labels,
         values |-> [i \in 1..Len(labels) |->
                        SumOf(GroupOf(sel, date_col, group_by, labels[i]), value_col)]]

\* grp_map.get(group_by, "%Y-%m-%d") and the else branch of aggregate_query
GroupBy(group_by) == IF group_by \in {"week", "month"} THEN group_by ELSE "day"

\* AVG(col) of a non-empty group, rounded to 2 decimals
AvgOf(rows, col) == RoundDiv(SumOf(rows, col), Cardinality(rows))

Chart(uid, args, labels, series) ==
    [handler |-> "api_charts", status |-> 200, uid |-> uid, args |-> args, labels |-> labels,
     series |-> series, meta |-> [range |-> args.range, group_by |-> args.group_by]]

\* abort(404): no chart kind matched
NotFound_empty_chart(uid, args) == Chart(uid, args, <<>>, <<>>)

NotFound(uid, args) == [handler |-> "api_charts", status |-> 404, uid |-> uid, args |-> args]

\* api_charts after start_end_from_range returned bound
ChartResponse(uid, args, bound) ==
    LET group_by == GroupBy(args.group_by)
        wsel == Selected(weight_logs, "date", uid, bound)
        wlabels == SortKeys({GroupKey(group_by, r.date) : r \in wsel})
        m == aggregate_query(uid, meal_logs, "calories", "date", bound, group_by)
        col == IF args.metric = "calories" THEN "calories_burned" ELSE "duration_min"
        f == aggregate_query(uid, fitness_logs, col, "date", bound, group_by)
        \* round(v, 2) of a sum of hundredths is the sum
        sl == aggregate_query(uid, sleep_logs, "duration_hours", "sleep_end", bound, group_by)
    IN  IF bound.kind = "ValueError"
        THEN [handler |-> "api_charts", status |-> 500, error |-> "ValueError",
              uid |-> uid, args |-> args]
        ELSE IF args.kind = "weight"
        THEN Chart(uid, args, wlabels,
                   <<[name |-> "Weight (kg)",
                      data |-> [i \in 1..Len(wlabels) |->
                                  AvgOf(GroupOf(wsel, "date", group_by, wlabels[i]), "weight_kg")]],
                     [name |-> "BMI",
                      data |-> [i \in 1..Len(wlabels) |->
                                  AvgOf(GroupOf(wsel, "date", group_by, wlabels[i]), "bmi")]]>>)
        ELSE IF args.kind = "meals"
        THEN Chart(uid, args, m.labels, <<[name |-> "Calories In", data |-> m.values]>>)
        ELSE IF args.kind = "fitness"
        THEN Chart(uid, args, f.labels,
                   <<[name |-> IF col = "calories_burned" THEN "Calories Burned"
                               ELSE "Duration (min)",
                      data |-> f.values]>>)
        ELSE IF args.kind = "sleep"
        THEN Chart(uid, args, sl.labels, <<[name |-> "Sleep (h)", data |-> sl.values]>>)
        ELSE NotFound(uid, args)

api_charts(args) ==
    /\ session # 0
    /\ \E bound \in {start_end_from_range(args.range, args.start, args.end, today)} :
           response' = ChartResponse(session, args, bound)
    /\ UNCHANGED <<today, tables, session, reqs>>

\* the days the chart specification logs on: two days before today (the same
\* Monday-start week, the year and month before), today and tomorrow
TextTwoDaysAgo == fmt_day(AddDays(StoreToday, -2))
Text75 == <<"7", "5">>

Args(kind, range, group_by, start, end, metric) ==
    [kind |-> kind, range |-> range, group_by |-> group_by, start |-> start, end |-> end,
     metric |-> metric]

ChartKinds == {"meals", "fitness", "sleep", "weight"}

ChartRequests ==
    {Args("meals", "all", "week", None, None, "calories"),
     Args("meals", "custom", "day", TextTwoDaysAgo, TextToday, "calories"),
     Args("meals", "month", "month", None, None, "calories"),
     Args("fitness", "all", "month", None, None, "duration"),
     Args("fitness", "week", "week", None, None, "calories"),
     Args("sleep", "all", "day", None, None, "calories"),
     Args("sleep", "custom", "month", TextTwoDaysAgo, TextToday, "calories"),
     Args("weight", "all", "day", None, None, "calories"),
     Args("weight", "today", "week", None, None, "calories"),
     Args("meals", "custom", "day", Text_abc, TextToday, "calories"),
     Args("steps", "all", "day", None, None, "calories")}

NextCharts ==
    \/ RegisterAccount
    \/ LoginAccount
    \/ \E dt \in {TextTwoDaysAgo, TextToday, Text_abc} : MealsPost(dt, None, TextX, Text300)
    \/ FitnessPost(TextToday, TextX, Text30, Text300)
    \/ SleepPost(TextNight, TextMorning)
    \/ \E w \in {Text70, Text75} : WeightPost(TextToday, w, Text175)
    \/ \E a \in ChartRequests : api_charts(a)
    \/ LoginRequired("api_charts")

SpecCharts == Init /\ [][NextCharts]_vars

IsChart(r) == r.handler = "api_charts" /\ r.status = 200

\* the table and the date column a chart kind reads
ChartRows(kind) ==
    IF kind = "meals" THEN meal_logs ELSE IF kind = "fitness" THEN fitness_logs
    ELSE IF kind = "sleep" THEN sleep_logs ELSE weight_logs

ChartDateCol(kind) == IF kind = "sleep" THEN "sleep_end" ELSE "date"

\* the column series i of a chart sums or averages
ChartCol(a, i) ==
    IF a.kind = "meals" THEN "calories"
    ELSE IF a.kind = "fitness"
         THEN (IF a.metric = "calories" THEN "calories_burned" ELSE "duration_min")
    ELSE IF a.kind = "sleep" THEN "duration_hours"
    ELSE IF i = 1 THEN "weight_kg" ELSE "bmi"

\* the records of the user that pass the date filter of the request: all of
\* them without a bound, else those whose date lies within start..end
Passing(r) ==
    LET a == r.args
        bound == start_end_from_range(a.range, a.start, a.end, today)
        col == ChartDateCol(a.kind)
    IN  {x \in ChartRows(a.kind) :
            /\ x.user_id = r.uid
            /\ bound.kind = "pair" =>
                   /\ SqlDate(x[col]).ok
                   /\ toordinal(bound.start) <= toordinal(SqlDate(x[col]).date)
                   /\ toordinal(SqlDate(x[col]).date) <= toordinal(bound.end)}

PassingKeys(r) ==
    {GroupKey(GroupBy(r.args.group_by), x[ChartDateCol(r.args.kind)]) : x \in Passing(r)}

RECURSIVE SumSeq(_)
SumSeq(q) == IF q = <<>> THEN 0 ELSE Head(q) + SumSeq(Tail(q))

\* C3: aggregate_query returns as many values as labels, one label for each
\* distinct group key among the user's records that pass the date filter and
\* none else, in strictly ascending order of the key.
C3_LabelsAreTheGroupKeys ==
    (IsChart(response) /\ response.args.kind \in {"meals", "fitness", "sleep"}) =>
        /\ Len(response.series[1].data) = Len(response.labels)
        /\ {response.labels[i] : i \in 1..Len(response.labels)} = PassingKeys(response)
        /\ Len(response.labels) = Cardinality(PassingKeys(response))
        /\ \A i \in 1..Len(response.labels), j \in 1..Len(response.labels) :
               i < j => KeyLess(response.labels[i], response.labels[j])

\* a meal chart by day over a custom range with one label, while the table
\* holds a second row that is another user's or outside the range
C3_Witness ==
    /\ IsChart(response)
    /\ response.args.kind = "meals"
    /\ response.args.range = "custom"
    /\ Len(response.labels) = 1
    /\ response.series[1].data = <<300>>
    /\ Cardinality(meal_logs) = 2

MondayOf(d) == toordinal(d) - weekday(d)

\* C12: in a chart grouped by week, two dated records of the user fall in
\* the same bucket exactly when their dates lie in the same Monday-start ISO
\* week, a week that straddles a year boundary included; so there are as
\* many buckets as ISO weeks, and the dates of a bucket lie within 7
\* consecutive days.
C12_WeekBucketsAreISOWeeks ==
    (IsChart(response) /\ GroupBy(response.args.group_by) = "week") =>
        LET col == ChartDateCol(response.args.kind)
            dated == {x \in Passing(response) : SqlDate(x[col]).ok}
            key(x) == GroupKey("week", x[col])
            day(x) == SqlDate(x[col]).date
        IN  /\ \A x, y \in dated :
                   /\ key(x) = key(y) <=> MondayOf(day(x)) = MondayOf(day(y))
                   /\ key(x) = key(y) => toordinal(day(x)) - toordinal(day(y)) \in -6..6
            /\ Cardinality({i \in 1..Len(response.labels) : response.labels[i] # None})
                   = Cardinality({MondayOf(day(x)) : x \in dated})

\* ------------------------------------------------------------------------
\* Chart requests of an unknown kind
\* ------------------------------------------------------------------------
UnknownKinds == {"steps"}

\* the five range keys and one that is none of them
KindRanges == RangeKeys \cup {"year"}

\* start and end vary with the custom range, the only one that reads them
KindRequests ==
    {Args(k, "custom", g, s, e, m) :
        k \in UnknownKinds, g \in {"day", "week"},
        s \in {None, <<>>, Text_abc, TextToday}, e \in {None, Text_abc, TextToday},
        m \in {"calories"}}
    \cup {Args(k, rg, g, TextToday, TextToday, m) :
              k \in UnknownKinds, rg \in KindRanges, g \in {"day", "month"},
              m \in {"calories", "duration"}}

NextKinds ==
    \/ RegisterAccount
    \/ LoginAccount
    \/ MealsPost(TextToday, None, TextX, Text300)
    \/ \E a \in KindRequests : api_charts(a)
    \/ LoginRequired("api_charts")

SpecKinds == Init /\ [][NextKinds]_vars

\* a chart request of a logged-in user for a kind that is no chart kind
UnknownKindServed(r) == r.handler = "api_charts" /\ r.args.kind \notin ChartKinds

\* C11 as stated: a chart request of a logged-in user for a kind other than
\* weight, meals, fitness and sleep is answered with status 404 whatever
\* range, group_by, start, end and metric it carries, and no table changes.
C11_UnknownKindNotFound ==
    [][UnknownKindServed(response') => (response'.status = 404 /\ tables' = tables)]_vars

\* the custom range whose start and end are both given and one of them is
\* not read as a date
UnparsableCustom(a) ==
    /\ a.range = "custom"
    /\ Truthy(a.start) /\ Truthy(a.end)
    /\ (~parse_date(a.start).ok \/ ~parse_date(a.end).ok)

\* C11, amended: such a request is answered with status 404, with nothing
\* but the user and the query in the response, unless its range is custom
\* with start and end both given and one of them not a date: then the range
\* is resolved before the kind is looked at and the request ends with the
\* uncaught ValueError (status 500). In both cases no table, session or
\* request in flight changes.
C11_UnknownKindNotFoundOrParseError ==
    [][UnknownKindServed(response') =>
        /\ tables' = tables /\ session' = session /\ reqs' = reqs
        /\ response'.uid = session
        /\ IF UnparsableCustom(response'.args)
           THEN response'.status = 500 /\ response'.error = "ValueError"
           ELSE response' = [handler |-> "api_charts", status |-> 404, uid |-> session,
                             args |-> response'.args]]_vars

\* an unknown kind answered 404 on a custom range without a start, while the
\* store holds a meal of the user
C11_Witness ==
    /\ UnknownKindServed(response)
    /\ response.status = 404
    /\ response.args.range = "custom"
    /\ response.args.start = None
    /\ response.args.group_by = "week"
    /\ \E r \in meal_logs : r.user_id = response.uid

\* ------------------------------------------------------------------------
\* The dashboard's sleep average
\* ------------------------------------------------------------------------
\* the text of a minute of the day n days from today, as the sleep form
\* sends it
TextAt(n, hh, mm) == fmt_day(AddDays(StoreToday, n)) \o <<"T">> \o Pad(hh, 2) \o <<":">> \o Pad(mm, 2)

\* nights that end a week ago, on the first day of the window and tomorrow;
\* the last one is entered with today's date for both times, the end being
\* moved to the next day because it precedes the start
SleepNights ==
    {<<TextAt(-8, 23, 0), TextAt(-7, 7, 0)>>,
     <<TextAt(-7, 23, 0), TextAt(-6, 5, 0)>>,
     <<TextNight, TextMorning>>}

NextSleep ==
    \/ RegisterAccount
    \/ LoginAccount
    \/ \E n \in SleepNights : SleepPost(n[1], n[2])
    \/ Dashboard
    \/ \E h \in {"dashboard", "sleep"} : LoginRequired(h)

SpecSleep == Init /\ [][NextSleep]_vars

\* the calendar day a stored sleep_end names
SleepEndDay(r) == parse_date(SubSeq(r.sleep_end, 1, 10)).date

\* C13: the sleep average of the dashboard is the mean of duration_hours (to
\* 2 decimals) over the user's sleep logs whose sleep_end day d satisfies
\* today - 6 <= d <= today, and 0 when there is none; logs that end before
\* the window or after today do not enter it.
C13_SleepAverageOfTrailingWeek ==
    response.handler = "dashboard" =>
        LET window == {r \in sleep_logs :
                          /\ r.user_id = response.uid
                          /\ toordinal(today) - 6 <= toordinal(SleepEndDay(r))
                          /\ toordinal(SleepEndDay(r)) <= toordinal(today)}
            n == Cardinality(window)
            diff == n * response.avg_sleep - SumOf(window, "duration_hours")
        IN  IF window = {} THEN response.avg_sleep = 0
            ELSE 2 * diff <= n /\ 0 - n <= 2 * diff

====
